---- MODULE Spec2Model ----
(***************************************************************************)
(* Dental appointment chatbot service: the in-memory session store        *)
(* (conversation_manager.py), the chat endpoint and its background sweep   *)
(* (app.py), the chat pipeline around the provider call                    *)
(* (chatbot_chain.py) and the weekday arithmetic of the date rewriter.     *)
(*                                                                         *)
(* Time is counted in minutes.  Python Optional values are sequences of    *)
(* length at most one: <<>> is None, <<x>> is the value x.                 *)
(***************************************************************************)
EXTENDS Integers, Sequences, FiniteSets, Bags, TLC

\* ---------------------------------------------------------------- bounds
MaxRequests == 3        \* sessions created plus chat requests accepted
MaxTime == 60           \* the clock stops advancing here
TickMinutes == 30       \* granularity of the clock
MaxSweeps == 1          \* background sweeps ever scheduled
MaxTurns == 12          \* add_message calls in the history specification
AnchorBase == 739545    \* date(2025, 10, 21).toordinal(), a Tuesday
AnchorSpan == 40        \* anchors AnchorBase .. AnchorBase + AnchorSpan
MaxPasses == 2          \* rewriter passes over one response
RewriteSpan == 1        \* rewriter anchors AnchorBase .. AnchorBase + RewriteSpan
MaxHumanTurns == 3      \* user messages in the slot-extraction specification

\* ------------------------------------------------------ program constants
SESSION_TIMEOUT_MINUTES == 30
MAX_CONVERSATION_HISTORY == 10

SessionIds == 1..MaxRequests
UserIds == {"u1"}
Messages == {"hi"}
Responses == {"r1"}

None == <<>>
Some(x) == <<x>>

VARIABLES
    now,            \* datetime.now(), minutes
    nextId,         \* number of the next session id create_session hands out
    objs,           \* every ConversationSession object ever built, by id
    sessions,       \* keys of ConversationManager.sessions
    reqs,           \* chat requests suspended in the provider call
    chatsIssued,    \* chat requests that reached the provider call so far
    pendingSweeps,  \* background tasks added and not yet started
    sweepsScheduled,\* background tasks added so far
    sweep,          \* the worker thread running cleanup_expired_sessions
    lastCall,       \* the latest operation that had an effect, and its outcome
    stopped,        \* lifespan shutdown has run
    anchor,         \* `today` handed to the date rewriter (a day ordinal)
    computed,       \* the weekday -> date the rewriter computed last
    response,       \* the provider's response text handed to the rewriter
    message,        \* the user's message of the current chat request
    turns,          \* the human turns of the session history, oldest first
    rewritten,      \* the results of the successive rewriter passes
    slots           \* the appointment fields extracted from the human turns

vars == <<now, nextId, objs, sessions, reqs, chatsIssued, pendingSweeps,
          sweepsScheduled, sweep, lastCall, stopped, anchor, computed,
          response, message, turns, rewritten, slots>>

storeVars == <<now, nextId, objs, sessions, reqs, chatsIssued, pendingSweeps,
               sweepsScheduled, sweep, lastCall, stopped>>
calendarVars == <<anchor, computed>>
rewriteVars == <<response, message, turns, rewritten, slots>>

\* lastCall holds the latest operation that had an effect, and its outcome
Call(op, sid, ret, status, log, n) ==
    [op |-> op, sid |-> sid, ret |-> ret, status |-> status, log |-> log, n |-> n]

Observe(effect, call) == IF effect THEN lastCall' = call ELSE UNCHANGED lastCall

\* ------------------------------------------------- ConversationSession

\* ConversationSession.__init__
NewSession(session_id, user_id, t) ==
    [session_id |-> session_id, user_id |-> user_id, created_at |-> t,
     last_activity |-> t, message_count |-> 0, history |-> <<>>]

\* variant: the timeout boundary counts as expired
is_expired_inclusive(sess, t) == t - sess.last_activity >= SESSION_TIMEOUT_MINUTES

\* ConversationSession.is_expired
is_expired(sess, t) == t - sess.last_activity > SESSION_TIMEOUT_MINUTES

\* variant: the counter is not incremented
update_activity_no_count(sess, t) == [sess EXCEPT !.last_activity = t]

\* ConversationSession.update_activity
update_activity(sess, t) ==
    [sess EXCEPT !.last_activity = t, !.message_count = @ + 1]

\* variant: the pair is put in front of the history
save_context_front(history, human, ai) == <<<<human, ai>>>> \o history

\* ConversationBufferMemory.save_context as _create_memory configures it:
\* the buffer memory has no max_len field, the keyword is dropped and every
\* pair is kept.
save_context(history, human, ai) == Append(history, <<human, ai>>)

\* ConversationSession.add_message
add_message(sess, human, ai, t) ==
    update_activity([sess EXCEPT !.history = save_context(@, human, ai)], t)

\* variant: clearing also rewinds the activity stamp to the creation time
clear_resets(sess) == [sess EXCEPT !.history = <<>>, !.last_activity = sess.created_at]

\* ConversationSession.clear
clear(sess) == [sess EXCEPT !.history = <<>>]

\* ------------------------------------------------- ConversationManager

\* variant: del without the membership test
end_session_unguarded(S, sid) ==
    [sessions |-> S \ {sid}, raised |-> sid \notin S,
     log |-> IF sid \in S THEN "ended" ELSE ""]

\* ConversationManager.end_session
end_session(S, sid) ==
    IF sid \in S
    THEN [sessions |-> S \ {sid}, raised |-> FALSE, log |-> "ended"]
    ELSE [sessions |-> S, raised |-> FALSE, log |-> ""]

\* ConversationManager.get_session
get_session(S, O, sid, t) ==
    IF sid \in S /\ is_expired(O[sid], t)
    THEN [sessions |-> end_session(S, sid).sessions, ret |-> None, log |-> "expired"]
    ELSE [sessions |-> S, ret |-> IF sid \in S THEN Some(sid) ELSE None, log |-> ""]

\* variant: every session is removed
cleanup_removes_all(S, O, t) ==
    [sessions |-> {}, ret |-> None,
     log |-> IF S # {} THEN "cleaned" ELSE "", n |-> Cardinality(S)]

\* ConversationManager.cleanup_expired_sessions, run without interleaving
cleanup_expired_sessions(S, O, t) ==
    LET expired == {sid \in S : is_expired(O[sid], t)}
    IN [sessions |-> S \ expired,
        ret |-> None,
        log |-> IF expired # {} THEN "cleaned" ELSE "",
        n |-> Cardinality(expired)]

\* ConversationManager.get_active_sessions_count, the active_sessions of /health
get_active_sessions_count(S) == Cardinality(S)

\* requests that create a session or reach the provider, so far
Budget == (nextId - 1) + chatsIssued

IdleSweep == [pc |-> "idle", used |-> 0, len |-> 0, pos |-> 0, expired |-> <<>>, found |-> 0]

Init ==
    /\ now = 0
    /\ nextId = 1
    /\ objs = <<>>
    /\ sessions = {}
    /\ reqs = EmptyBag
    /\ chatsIssued = 0
    /\ pendingSweeps = 0
    /\ sweepsScheduled = 0
    /\ sweep = IdleSweep
    /\ lastCall = Call("init", 0, None, "", "", 0)
    /\ stopped = FALSE
    /\ anchor = AnchorBase
    /\ computed = None
    /\ response = <<>>
    /\ message = <<>>
    /\ turns = <<>>
    /\ rewritten = <<>>
    /\ slots = None

\* the wall clock advances
Tick ==
    /\ ~stopped
    /\ now + TickMinutes <= MaxTime
    /\ now' = now + TickMinutes
    /\ lastCall' = Call("tick", 0, None, "", "", 0)
    /\ UNCHANGED <<nextId, objs, sessions, reqs, chatsIssued, pendingSweeps, sweep, stopped, sweepsScheduled>>
    /\ UNCHANGED calendarVars
    /\ UNCHANGED rewriteVars

\* POST /api/sessions -> ConversationManager.create_session
CreateSession(limit) ==
    /\ ~stopped
    /\ Budget < limit
    /\ \E u \in UserIds :
        /\ objs' = Append(objs, NewSession(nextId, u, now))
        /\ sessions' = sessions \cup {nextId}
        /\ lastCall' = Call("create_session", nextId, Some(nextId), "201", "created", 0)
    /\ nextId' = nextId + 1
    /\ UNCHANGED <<now, reqs, chatsIssued, pendingSweeps, sweep, stopped, sweepsScheduled>>
    /\ UNCHANGED calendarVars
    /\ UNCHANGED rewriteVars

\* GET /api/sessions/{session_id} -> ConversationManager.get_session_info
GetSessionInfo(sid) ==
    /\ ~stopped
    /\ LET g == get_session(sessions, objs, sid, now)
       IN /\ sessions' = g.sessions
          /\ Observe(g.log = "expired", Call("get_session", sid, g.ret, "404", g.log, 0))
    /\ UNCHANGED <<now, nextId, objs, reqs, chatsIssued, pendingSweeps, sweep, stopped, sweepsScheduled>>
    /\ UNCHANGED calendarVars
    /\ UNCHANGED rewriteVars

\* DELETE /api/sessions/{session_id} -> ConversationManager.end_session
EndSession(sid) ==
    /\ ~stopped
    /\ LET e == end_session(sessions, sid)
       IN /\ sessions' = e.sessions
          /\ Observe(e.log = "ended" \/ e.raised,
                     Call("end_session", sid, None,
                          IF e.raised THEN "500" ELSE "204", e.log, 0))
    /\ UNCHANGED <<now, nextId, objs, reqs, chatsIssued, pendingSweeps, sweep, stopped, sweepsScheduled>>
    /\ UNCHANGED calendarVars
    /\ UNCHANGED rewriteVars

\* POST /api/sessions/{session_id}/clear
ClearHistory(sid) ==
    /\ ~stopped
    /\ LET g == get_session(sessions, objs, sid, now)
       IN /\ sessions' = g.sessions
          /\ objs' = IF g.ret = None THEN objs ELSE [objs EXCEPT ![sid] = clear(@)]
          /\ IF g.ret = None
             THEN Observe(g.log = "expired", Call("get_session", sid, g.ret, "404", g.log, 0))
             ELSE lastCall' = Call("clear_session_history", sid, g.ret, "200", "cleared", 0)
    /\ UNCHANGED <<now, nextId, reqs, chatsIssued, pendingSweeps, sweep, stopped, sweepsScheduled>>
    /\ UNCHANGED calendarVars
    /\ UNCHANGED rewriteVars

\* --------------------------------------------------------- chat endpoint

\* the text DentalChatbot.chat hands to the chain: the message wrapped in
\* the date instruction
InputText(m) == [kind |-> "prompt", text |-> m]
\* the message as the client sent it
UserText(m) == [kind |-> "message", text |-> m]
\* the provider's output as the chain returns it
RawResponse(r) == [kind |-> "raw", text |-> r]
\* the response after post-processing
FinalResponse(r) == [kind |-> "final", text |-> r]

ChatRequest(session_id, sid, m, t) ==
    [session_id |-> session_id, sid |-> sid, message |-> m, today |-> t]

\* variant: a request on a session that is gone goes on with the session
\* object it named
ChatBeginExisting_repairs(sid, m) ==
    /\ ~stopped
    /\ Budget < MaxRequests
    /\ sid \in DOMAIN objs
    /\ sessions' = sessions \cup {sid}
    /\ reqs' = reqs (+) SetToBag({ChatRequest(Some(sid), sid, m, now)})
    /\ chatsIssued' = chatsIssued + 1
    /\ lastCall' = Call("chat", sid, Some(sid), "awaiting", "", 0)
    /\ UNCHANGED <<now, nextId, objs, pendingSweeps, sweep, stopped, sweepsScheduled>>
    /\ UNCHANGED calendarVars
    /\ UNCHANGED rewriteVars

\* POST /api/chat with a session id, up to the awaited provider call
ChatBeginExisting(sid, m) ==
    /\ ~stopped
    /\ Budget < MaxRequests
    /\ LET g == get_session(sessions, objs, sid, now)
       IN /\ sessions' = g.sessions
          /\ IF g.ret = None
             THEN /\ UNCHANGED <<reqs, chatsIssued>>
                  /\ Observe(g.log = "expired", Call("chat", sid, g.ret, "404", g.log, 0))
             ELSE /\ reqs' = reqs (+) SetToBag({ChatRequest(Some(sid), sid, m, now)})
                  /\ chatsIssued' = chatsIssued + 1
                  /\ lastCall' = Call("chat", sid, g.ret, "awaiting", g.log, 0)
    /\ UNCHANGED <<now, nextId, objs, pendingSweeps, sweep, stopped, sweepsScheduled>>
    /\ UNCHANGED calendarVars
    /\ UNCHANGED rewriteVars

\* POST /api/chat without a session id, up to the awaited provider call
ChatBeginNew(m) ==
    /\ ~stopped
    /\ Budget + 1 < MaxRequests
    /\ chatsIssued' = chatsIssued + 1
    /\ \E u \in UserIds :
        LET O == Append(objs, NewSession(nextId, u, now))
            g == get_session(sessions \cup {nextId}, O, nextId, now)
        IN /\ objs' = O
           /\ sessions' = g.sessions
           /\ reqs' = IF g.ret = None THEN reqs
                      ELSE reqs (+) SetToBag({ChatRequest(None, nextId, m, now)})
           /\ lastCall' = Call("chat", nextId, g.ret,
                               IF g.ret = None THEN "500" ELSE "awaiting", "created", 0)
    /\ nextId' = nextId + 1
    /\ UNCHANGED <<now, pendingSweeps, sweep, stopped, sweepsScheduled>>
    /\ UNCHANGED calendarVars
    /\ UNCHANGED rewriteVars

\* background_tasks.add_task(conversation_manager.cleanup_expired_sessions);
\* the model follows MaxSweeps of the scheduled tasks
add_task ==
    IF sweepsScheduled < MaxSweeps
    THEN pendingSweeps' = pendingSweeps + 1 /\ sweepsScheduled' = sweepsScheduled + 1
    ELSE UNCHANGED <<pendingSweeps, sweepsScheduled>>

\* chain.apredict returns: the chain saves its own context into the shared
\* memory, the response is post-processed, the turn is recorded, the sweep
\* is scheduled and the ChatResponse is built
ProviderReturn(q, r) ==
    /\ ~stopped
    /\ q \in BagToSet(reqs)
    /\ LET chained == [objs[q.sid] EXCEPT
                          !.history = save_context(@, InputText(q.message), RawResponse(r))]
           after == add_message(chained, UserText(q.message), FinalResponse(r), now)
       IN /\ objs' = [objs EXCEPT ![q.sid] = after]
          /\ lastCall' = Call("chat", q.sid, Some(q.sid), "200", "", after.message_count)
    /\ reqs' = reqs (-) SetToBag({q})
    /\ add_task
    /\ UNCHANGED <<now, nextId, sessions, chatsIssued, sweep, stopped>>
    /\ UNCHANGED calendarVars
    /\ UNCHANGED rewriteVars

\* variant: the apology is recorded as a turn
ProviderFail_records(q) ==
    /\ ~stopped
    /\ q \in BagToSet(reqs)
    /\ objs' = [objs EXCEPT ![q.sid] =
                    add_message(@, UserText(q.message), FinalResponse("apology"), now)]
    /\ lastCall' = Call("chat", q.sid, Some(q.sid), "200", "provider_error",
                        objs'[q.sid].message_count)
    /\ reqs' = reqs (-) SetToBag({q})
    /\ add_task
    /\ UNCHANGED <<now, nextId, sessions, chatsIssued, sweep, stopped>>
    /\ UNCHANGED calendarVars
    /\ UNCHANGED rewriteVars

\* chain.apredict raises: DentalChatbot.chat answers with the apology text,
\* the endpoint still schedules the sweep and returns a ChatResponse
ProviderFail(q) ==
    /\ ~stopped
    /\ q \in BagToSet(reqs)
    /\ lastCall' = Call("chat", q.sid, Some(q.sid), "200", "provider_error",
                           objs[q.sid].message_count)
    /\ reqs' = reqs (-) SetToBag({q})
    /\ add_task
    /\ UNCHANGED <<now, nextId, objs, sessions, chatsIssued, sweep, stopped>>
    /\ UNCHANGED calendarVars
    /\ UNCHANGED rewriteVars

\* the request task is cancelled while it awaits the provider
Abort(q) ==
    /\ ~stopped
    /\ q \in BagToSet(reqs)
    /\ lastCall' = Call("chat", q.sid, None, "cancelled", "", 0)
    /\ reqs' = reqs (-) SetToBag({q})
    /\ UNCHANGED <<now, nextId, objs, sessions, chatsIssued, pendingSweeps, sweep, stopped, sweepsScheduled>>
    /\ UNCHANGED calendarVars
    /\ UNCHANGED rewriteVars

\* ------------------------------------------- background sweep (worker thread)
\* BackgroundTasks runs the synchronous cleanup_expired_sessions in a worker
\* thread, so its steps interleave with the handlers of the event loop.  The
\* thread can be preempted inside every is_expired call of the comprehension
\* and between the end_session calls of the second loop.

Min(T) == CHOOSE x \in T : \A y \in T : x <= y

\* one round of the comprehension over self.sessions.items(): the dict
\* iterator's next (size check, advance to the next live entry, unexpected
\* entry check) followed by session.is_expired().  Ids are fresh and at most
\* five are ever inserted, so the entries are never compacted and the
\* iteration order is the order of the ids.
IterNext(sw, S, O, t) ==
    IF sw.used # Cardinality(S)
    THEN [sw EXCEPT !.pc = "raise"]
    ELSE LET rest == {k \in S : k > sw.pos}
         IN IF rest = {}
            THEN [sw EXCEPT !.pc = "del"]
            ELSE IF sw.len = 0
                 THEN [sw EXCEPT !.pc = "raise"]
                 ELSE LET k == Min(rest)
                          e == is_expired(O[k], t)
                      IN [sw EXCEPT !.pc = "iter", !.pos = k, !.len = @ - 1,
                                    !.expired = IF e THEN Append(@, k) ELSE @,
                                    !.found = IF e THEN @ + 1 ELSE @]

\* the task starts: the iterator is created and the first round runs
SweepBegin ==
    /\ ~stopped
    /\ pendingSweeps > 0
    /\ sweep.pc = "idle"
    /\ pendingSweeps' = pendingSweeps - 1
    /\ sweep' = IterNext([IdleSweep EXCEPT !.pc = "iter",
                                           !.used = Cardinality(sessions),
                                           !.len = Cardinality(sessions)],
                         sessions, objs, now)
    /\ UNCHANGED <<now, nextId, objs, sessions, reqs, chatsIssued, stopped, sweepsScheduled, lastCall>>
    /\ UNCHANGED calendarVars
    /\ UNCHANGED rewriteVars

\* a further round of the comprehension; RuntimeError ends the task
SweepNext ==
    /\ ~stopped
    /\ sweep.pc = "iter"
    /\ LET n == IterNext(sweep, sessions, objs, now)
       IN IF n.pc = "raise"
          THEN /\ sweep' = IdleSweep
               /\ lastCall' = Call("cleanup_expired_sessions", 0, None, "RuntimeError", "", 0)
          ELSE /\ sweep' = n
               /\ UNCHANGED lastCall
    /\ UNCHANGED <<now, nextId, objs, sessions, reqs, chatsIssued, pendingSweeps, stopped, sweepsScheduled>>
    /\ UNCHANGED calendarVars
    /\ UNCHANGED rewriteVars

\* for session_id in expired: self.end_session(session_id)
SweepDel ==
    /\ ~stopped
    /\ sweep.pc = "del"
    /\ sweep.expired # <<>>
    /\ sessions' = end_session(sessions, Head(sweep.expired)).sessions
    /\ sweep' = [sweep EXCEPT !.expired = Tail(@)]
    /\ LET e == end_session(sessions, Head(sweep.expired))
       IN Observe(e.log = "ended", Call("sweep_end_session", Head(sweep.expired), None, "", e.log, 0))
    /\ UNCHANGED <<now, nextId, objs, reqs, chatsIssued, pendingSweeps, stopped, sweepsScheduled>>
    /\ UNCHANGED calendarVars
    /\ UNCHANGED rewriteVars

\* if expired: logger.info(...); the function returns None
SweepFinish ==
    /\ ~stopped
    /\ sweep.pc = "del"
    /\ sweep.expired = <<>>
    /\ sweep' = IdleSweep
    /\ lastCall' = Call("cleanup_expired_sessions", 0, None, "done",
                        IF sweep.found > 0 THEN "cleaned" ELSE "", sweep.found)
    /\ UNCHANGED <<now, nextId, objs, sessions, reqs, chatsIssued, pendingSweeps, stopped, sweepsScheduled>>
    /\ UNCHANGED calendarVars
    /\ UNCHANGED rewriteVars

\* lifespan shutdown: cleanup_expired_sessions runs on the event loop once
\* the requests and their background tasks are finished
Shutdown ==
    /\ ~stopped
    /\ reqs = EmptyBag
    /\ pendingSweeps = 0
    /\ sweep.pc = "idle"
    /\ stopped' = TRUE
    /\ LET c == cleanup_expired_sessions(sessions, objs, now)
       IN /\ sessions' = c.sessions
          /\ lastCall' = Call("shutdown", 0, c.ret, "done", c.log, c.n)
    /\ UNCHANGED <<now, nextId, objs, reqs, chatsIssued, pendingSweeps, sweep, sweepsScheduled>>
    /\ UNCHANGED calendarVars
    /\ UNCHANGED rewriteVars

Next ==
    \/ Tick
    \/ CreateSession(MaxRequests)
    \/ \E sid \in SessionIds : GetSessionInfo(sid)
    \/ \E sid \in SessionIds : EndSession(sid)
    \/ \E sid \in SessionIds : ClearHistory(sid)
    \/ \E sid \in SessionIds, m \in Messages : ChatBeginExisting(sid, m)
    \/ \E m \in Messages : ChatBeginNew(m)
    \/ \E q \in BagToSet(reqs), r \in Responses : ProviderReturn(q, r)
    \/ \E q \in BagToSet(reqs) : ProviderFail(q)
    \/ \E q \in BagToSet(reqs) : Abort(q)
    \/ SweepBegin
    \/ SweepNext
    \/ SweepDel
    \/ SweepFinish
    \/ Shutdown

Spec == Init /\ [][Next]_vars

\* ------------------------------------------------ history specification
\* One session and a long run of add_message calls, so that the history
\* grows past MAX_CONVERSATION_HISTORY.

HistoryMessages == {"hi", "book"}

\* session.add_message(human_message, ai_message) on a stored session
RecordTurn(sid, h, r) ==
    /\ ~stopped
    /\ sid \in sessions
    /\ objs[sid].message_count < MaxTurns
    /\ objs' = [objs EXCEPT ![sid] = add_message(@, UserText(h), FinalResponse(r), now)]
    /\ lastCall' = Call("add_message", sid, None, "", "", objs'[sid].message_count)
    /\ UNCHANGED <<now, nextId, sessions, reqs, chatsIssued, pendingSweeps,
                   sweepsScheduled, sweep, stopped>>
    /\ UNCHANGED calendarVars
    /\ UNCHANGED rewriteVars

NextHistory ==
    \/ Tick
    \/ CreateSession(1)
    \/ \E sid \in SessionIds, h \in HistoryMessages, r \in Responses : RecordTurn(sid, h, r)

SpecHistory == Init /\ [][NextHistory]_vars

\* ----------------------------------------------- calendar specification
\* Weekdays are numbered as date.weekday() numbers them: Monday is 0.

Weekdays == 0..6

\* date.weekday() of the day with ordinal d
weekday(d) == (d + 6) % 7

\* variant: a zero offset is kept
days_until_same_day(W, today) ==
    IF W = 0 THEN (7 - weekday(today)) % 7 ELSE (W - weekday(today)) % 7

\* days_until_<weekday>: the offset modulo 7, a zero offset replaced by 7
days_until(W, today) ==
    LET d == IF W = 0 THEN (7 - weekday(today)) % 7 ELSE (W - weekday(today)) % 7
    IN IF d = 0 THEN 7 ELSE d

\* next_monday .. next_sunday of _apply_date_replacements
next_dates(today) == [W \in Weekdays |-> today + days_until(W, today)]

\* next_monday .. next_sunday of _force_exact_dates
force_next_dates(today) == [W \in Weekdays |-> today + days_until(W, today)]

InitCalendar ==
    /\ now = 0
    /\ nextId = 1
    /\ objs = <<>>
    /\ sessions = {}
    /\ reqs = EmptyBag
    /\ chatsIssued = 0
    /\ pendingSweeps = 0
    /\ sweepsScheduled = 0
    /\ sweep = IdleSweep
    /\ lastCall = Call("init", 0, None, "", "", 0)
    /\ stopped = FALSE
    /\ anchor \in AnchorBase..(AnchorBase + AnchorSpan)
    /\ computed = None
    /\ response = <<>>
    /\ message = <<>>
    /\ turns = <<>>
    /\ rewritten = <<>>
    /\ slots = None

\* _apply_date_replacements computes its replacement map for `today`
ApplyDateReplacements ==
    /\ computed' = Some([via |-> "apply", today |-> anchor, dates |-> next_dates(anchor)])
    /\ UNCHANGED anchor
    /\ UNCHANGED storeVars
    /\ UNCHANGED rewriteVars

\* _force_exact_dates computes its replacement map for `today`
ForceExactDates ==
    /\ computed' = Some([via |-> "force", today |-> anchor, dates |-> force_next_dates(anchor)])
    /\ UNCHANGED anchor
    /\ UNCHANGED storeVars
    /\ UNCHANGED rewriteVars

NextCalendar ==
    \/ ApplyDateReplacements
    \/ ForceExactDates

SpecCalendar == InitCalendar /\ [][NextCalendar]_vars

\* ------------------------------------------------------------ text model
\* A text is a sequence of tokens.  A token is a record with the fields
\*   k  the kind: "word", "day", "tomorrow", "date", "time", "phone"
\*   s  the spelling: the words of a "word" token, the form of a "date"
\*      token ("Month D", ", Month D", "D Month", "D Mon"), the am/pm marker
\*      of a "time" token, the digits of a "phone" token
\*   y  the year of a date (0: none written); 1 for a time written H:MM
\*   m  the month of a date; the minutes of a time
\*   d  the day of a date; the hour of a time; the weekday of a "day" token
Tok(k, s, y, m, d) == [k |-> k, s |-> s, y |-> y, m |-> m, d |-> d]

Word(s) == Tok("word", s, 0, 0, 0)
Day(W) == Tok("day", "", 0, 0, W)
TomorrowTok == Tok("tomorrow", "", 0, 0, 0)
DateTok(form, y, m, d) == Tok("date", form, y, m, d)
TimeTok(h, mi, colon, ampm) == Tok("time", ampm, IF colon THEN 1 ELSE 0, mi, h)
PhoneTok(digits) == Tok("phone", digits, 0, 0, 0)

\* ---- datetime
is_leap(y) == y % 4 = 0 /\ (y % 100 # 0 \/ y % 400 = 0)

days_in_month(y, m) ==
    IF m = 2 THEN (IF is_leap(y) THEN 29 ELSE 28)
    ELSE IF m \in {4, 6, 9, 11} THEN 30 ELSE 31

RECURSIVE days_before_month(_, _)
days_before_month(y, m) ==
    IF m = 1 THEN 0 ELSE days_before_month(y, m - 1) + days_in_month(y, m - 1)

days_before_year(y) ==
    (y - 1) * 365 + ((y - 1) \div 4) - ((y - 1) \div 100) + ((y - 1) \div 400)

\* date(y, m, d) exists
valid_date(y, m, d) == m \in 1..12 /\ d >= 1 /\ d <= days_in_month(y, m)

\* date(y, m, d).toordinal()
toordinal(y, m, d) == days_before_year(y) + days_before_month(y, m) + d

\* the years the model's dates fall in
Years == 2025..2026

\* date.fromordinal(n), as the record strftime('%B %d, %Y') prints
fromordinal(n) ==
    LET y == CHOOSE yy \in Years : days_before_year(yy) < n /\ n <= days_before_year(yy + 1)
        doy == n - days_before_year(y)
        m == CHOOSE mm \in 1..12 :
                 days_before_month(y, mm) < doy
                 /\ doy <= days_before_month(y, mm) + days_in_month(y, mm)
    IN [y |-> y, m |-> m, d |-> doy - days_before_month(y, m)]

\* f", {date.strftime('%B %d, %Y')}": the stamp put after a weekday name
Stamp(n) == LET t == fromordinal(n) IN DateTok(", Month D", t.y, t.m, t.d)

\* date.strftime('%B %d, %Y') with no comma in front
FullDate(n) == LET t == fromordinal(n) IN DateTok("Month D", t.y, t.m, t.d)

\* datetime.strptime of a date expression; a date written without a year is
\* parsed in 1900 and moved to 2025.  None stands for ValueError.
strptime(tok) ==
    IF tok.y # 0
    THEN (IF valid_date(tok.y, tok.m, tok.d)
          THEN Some(toordinal(tok.y, tok.m, tok.d)) ELSE None)
    ELSE (IF valid_date(1900, tok.m, tok.d)
          THEN Some(toordinal(2025, tok.m, tok.d)) ELSE None)

\* ---- substring tests
\* the keywords and phrases of the rewriter's lists that occur in the
\* lower-cased spelling of a word
WordKeywords(s) ==
    CASE s = "appointment for" -> {"appointment for", "appointment"}
      [] s = "your appointment is" -> {"appointment"}
      [] s = "hours" -> {"hours"}
      [] s = "confirmed" -> {"confirmed"}
      [] s = "cancel" -> {"cancel"}
      [] s = "closed on Sundays" -> {"closed on sundays", "closed on sunday", "sunday"}
      [] s = "not available for appointments" -> {"appointment"}
      [] s = "outside our business hours" -> {"business hours", "hours"}
      [] s = "availability at" -> {"availability at"}
      [] s = "next month" -> {"next month"}
      [] s = "checkup" -> {"checkup"}
      [] s = "cleaning" -> {"cleaning"}
      [] s = "Sam" -> {"am"}
      [] s = "phone number" -> {"phone"}
      [] s = "our clinic hours are" -> {"clinic hours", "hours"}
      [] s = "What's your contact phone number?" -> {"phone", "contact"}
      [] s = "Your appointment has been confirmed" -> {"appointment", "confirmed"}
      [] s = "What's the reason for your visit" -> {"checkup", "cleaning"}
      [] s = "What's your preferred date and time for the appointment?"
            -> {"preferred date", "appointment"}
      [] s = "What time would you prefer for your appointment?"
            -> {"prefer for your appointment", "appointment", "am"}
      [] s = "Your appointment is confirmed for checkup"
            -> {"appointment", "confirmed", "checkup"}
      [] s = "I'd be happy to help you schedule an appointment"
            -> {"schedule an appointment", "schedule", "appointment"}
      [] s = "**Appointment Summary:**" -> {"appointment"}
      [] OTHER -> {}

DayNames == <<"monday", "tuesday", "wednesday", "thursday", "friday", "saturday", "sunday">>

\* the listed keywords that occur in the lower-cased spelling of a token
Keywords(tok) ==
    CASE tok.k = "word" -> WordKeywords(tok.s)
      [] tok.k = "day" -> {DayNames[tok.d + 1]}
      [] tok.k = "tomorrow" -> {"tomorrow"}
      [] tok.k = "time" -> (IF tok.s \in {"am", "AM"} THEN {"am"} ELSE {"pm"})
                             \cup (IF tok.y = 1 THEN {":"} ELSE {})
      [] OTHER -> {}

\* any(phrase in text.lower() for phrase in phrases)
Contains(text, phrases) ==
    \E i \in 1..Len(text) : Keywords(text[i]) \cap phrases # {}

\* ------------------------------------------------- _apply_date_replacements

\* the keys of the replacement maps in insertion order: the weekday names,
\* then 'tomorrow'
ReplacementKeys == 0..7
Key(k) == IF k = 7 THEN TomorrowTok ELSE Day(k)

\* replacements[key]: "<Weekday>, <date>" and "tomorrow (<Weekday>, <date>)"
Replacement(k, dates, today) ==
    IF k = 7
    THEN <<TomorrowTok, Word("("), Day(weekday(today + 1)), Stamp(today + 1), Word(")")>>
    ELSE <<Day(k), Stamp(dates[k])>>

\* next_week_monday .. next_week_sunday of the scheduling branch
next_week_dates(today) == [W \in Weekdays |-> (today + days_until(0, today)) + W]

\* the vague phrases ("next Tuesday", ...) become "<Weekday>, <date>"
RECURSIVE vague_phrases(_, _)
vague_phrases(text, dates) ==
    IF text = <<>> THEN <<>>
    ELSE IF Len(text) >= 2 /\ text[1] = Word("next") /\ text[2].k = "day"
         THEN <<text[2], Stamp(dates[text[2].d])>>
                  \o vague_phrases(SubSeq(text, 3, Len(text)), dates)
         ELSE <<Head(text)>> \o vague_phrases(Tail(text), dates)

\* the lookahead (?!\s*,\s*\w+\s+\d{1,2},\s*\d{4}) fails: a full date follows
Stamped(text) ==
    Len(text) >= 2 /\ text[2].k = "date" /\ text[2].s = ", Month D" /\ text[2].y # 0

\* re.sub(r'\b' + day + r'\b(?!...)', replacement, response)
RECURSIVE sub(_, _, _)
sub(text, key, replacement) ==
    IF text = <<>> THEN <<>>
    ELSE IF Head(text) = key /\ ~Stamped(text)
         THEN replacement \o sub(Tail(text), key, replacement)
         ELSE <<Head(text)>> \o sub(Tail(text), key, replacement)

\* re.search(r'\b' + day + r'\s*[-]\s*Friday', response)
BeforeDashFriday(text, k) ==
    \E i \in 1..(Len(text) - 2) :
        text[i] = Key(k) /\ text[i + 1] = Word("-") /\ text[i + 2] = Day(4)

\* re.search(r'\bMonday\s+through\s+' + day, response)
AfterMondayThrough(text, k) ==
    \E i \in 1..(Len(text) - 2) :
        text[i] = Day(0) /\ text[i + 1] = Word("through") /\ text[i + 2] = Key(k)

\* for day, replacement in week_replacements.items(): from key k on
RECURSIVE week_replacements(_, _, _, _)
week_replacements(text, k, dates, today) ==
    IF k > 7 THEN text
    ELSE IF BeforeDashFriday(text, k) \/ AfterMondayThrough(text, k)
         THEN week_replacements(text, k + 1, dates, today)
         ELSE week_replacements(sub(text, Key(k), Replacement(k, dates, today)),
                                k + 1, dates, today)

\* for day, replacement in replacements.items(): from key k on
RECURSIVE replacements(_, _, _, _)
replacements(text, k, dates, today) ==
    IF k > 7 THEN text
    ELSE replacements(sub(text, Key(k), Replacement(k, dates, today)),
                      k + 1, dates, today)

business_hours_only_indicators ==
    {"business hours", "office hours", "clinic hours", "open hours",
     "what are your hours", "when are you open", "hours", "operating hours"}

appointment_scheduling_indicators ==
    {"schedule an appointment", "book an appointment", "appointment for",
     "when would you like to come in", "preferred date", "appointment on"}

is_business_hours_only(text) == Contains(text, business_hours_only_indicators)
is_appointment_scheduling(text) == Contains(text, appointment_scheduling_indicators)

\* a month name followed by a day number, or a day number followed by a
\* month name, occurs in the response
has_specific_dates(text) ==
    \E i \in 1..Len(text) :
        text[i].k = "date" /\ text[i].s \in {"Month D", ", Month D", "D Month"}

is_next_month_request(input) ==
    Contains(input, {"next month", "following month", "upcoming month"})

is_sunday_closure_message(text) ==
    Contains(text, {"closed on sundays", "closed on sunday"})

\* the fixed closed-day message, naming the date as `named` spells it
ClosedDayMessage(named) ==
    <<Word("closed on Sundays"), named, Word("not available for appointments"),
      Day(0), Word("-"), Day(4), TimeTok(8, 0, TRUE, "AM"), TimeTok(6, 0, TRUE, "PM"),
      Day(5), TimeTok(9, 0, TRUE, "AM"), TimeTok(2, 0, TRUE, "PM"),
      Word("choose a different day")>>

\* ---- the user's explicit date (Sunday requests)

\* text after the "User message:" marker of input_text
user_message_of(input) ==
    LET marks == {i \in 1..Len(input) : input[i] = Word("User message:")}
    IN IF marks = {} THEN None
       ELSE Some(SubSeq(input, Min(marks) + 1, Len(input)))

\* the first match of the month-day pattern, else of the day-month pattern;
\* the day-month pattern captures no year
user_date_match(text) ==
    LET md == {i \in 1..Len(text) : text[i].k = "date" /\ text[i].s \in {"Month D", ", Month D"}}
        dm == {i \in 1..Len(text) : text[i].k = "date" /\ text[i].s = "D Month"}
    IN IF md # {} THEN Some(text[Min(md)])
       ELSE IF dm # {} THEN Some([text[Min(dm)] EXCEPT !.y = 0])
       ELSE None

\* variant: the ValueError of an unparseable date escapes, and chat answers
\* with its error text
sunday_request_raises(text, input) ==
    LET um == user_message_of(input)
        dm == IF um = None THEN None ELSE user_date_match(um[1])
        parsed == IF dm = None THEN None ELSE strptime(dm[1])
    IN IF dm # None /\ parsed = None
       THEN <<Word("I apologize, but I'm having trouble processing your request")>>
       ELSE IF parsed # None /\ weekday(parsed[1]) = 6
       THEN ClosedDayMessage(FullDate(parsed[1]))
       ELSE text

\* lines 653-693: a user date that falls on a Sunday replaces the response
sunday_request(text, input) ==
    LET um == user_message_of(input)
        dm == IF um = None THEN None ELSE user_date_match(um[1])
        parsed == IF dm = None THEN None ELSE strptime(dm[1])
    IN IF parsed # None /\ weekday(parsed[1]) = 6
       THEN ClosedDayMessage(FullDate(parsed[1]))
       ELSE text

\* ---- weekday correction in the response

\* positions of "<Weekday>[,] <Month> <D>[, <YYYY>]"
DayDatePositions(text) ==
    {i \in 1..(Len(text) - 1) :
        text[i].k = "day" /\ text[i + 1].k = "date"
        /\ text[i + 1].s \in {"Month D", ", Month D"}}

\* response.replace(f"{mentioned_day}, {date_str}", ...) and
\* response.replace(f"{mentioned_day} {date_str}", ...)
replace_day(text, mentioned, actual, date) ==
    [i \in 1..Len(text) |->
        IF /\ i < Len(text)
           /\ text[i] = Day(mentioned)
           /\ text[i + 1].k = "date"
           /\ text[i + 1].s \in {"Month D", ", Month D"}
           /\ text[i + 1].m = date.m /\ text[i + 1].d = date.d
           /\ (date.y = 0 \/ text[i + 1].y = date.y)
        THEN Day(actual) ELSE text[i]]

\* lines 695-733: the first weekday-with-date of the response is compared
\* with the weekday its date falls on
fix_day_of_week(text) ==
    LET P == DayDatePositions(text)
    IN IF P = {} THEN text
       ELSE LET i == Min(P)
                mentioned_day == text[i].d
                date == text[i + 1]
                actual_date == strptime(date)
            IN IF actual_date = None THEN text
               ELSE LET actual_day == weekday(actual_date[1])
                    IN IF actual_day = 6
                       THEN ClosedDayMessage([date EXCEPT !.s = "Month D"])
                       ELSE IF mentioned_day # actual_day
                            THEN replace_day(text, mentioned_day, actual_day, date)
                            ELSE text

\* lines 516-741: the date stages of the rewriter
date_stages(resp, today, input) ==
    LET r1 == vague_phrases(resp, next_dates(today))
    IN IF is_appointment_scheduling(r1)
       THEN LET r2 == IF ~has_specific_dates(r1) /\ ~is_next_month_request(input)
                         /\ ~is_sunday_closure_message(r1)
                      THEN week_replacements(r1, 0, next_week_dates(today), today)
                      ELSE r1
                r3 == sunday_request(r2, input)
            IN fix_day_of_week(r3)
       ELSE IF ~is_business_hours_only(r1)
            THEN (IF ~is_sunday_closure_message(r1)
                  THEN replacements(r1, 0, next_dates(today), today)
                  ELSE r1)
            ELSE r1

\* ------------------------------------------------------- slot extraction

\* str.lower() and str.title() of the spelling of a word
Lower(s) ==
    CASE s = "Yes" -> "yes"
      [] s = "Rohit" -> "rohit"
      [] OTHER -> s

Title(s) ==
    CASE s = "rohit" -> "Rohit"
      [] s = "yes" -> "Yes"
      [] s = "hi" -> "Hi"
      [] s = "confirm" -> "Confirm"
      [] OTHER -> s

\* len(tok.split()): whitespace-separated words of a token
WordsIn(tok) ==
    CASE tok.k = "date" -> (IF tok.y = 0 THEN 2 ELSE 3)
      [] tok.k = "word" /\ tok.s \in {"appointment for", "next month", "availability at",
                                      "phone number", "User message:"} -> 2
      [] tok.k = "word" /\ tok.s \in {"your appointment is", "closed on Sundays",
                                      "SYSTEM: Today is"} -> 3
      [] OTHER -> 1

RECURSIVE WordCount(_)
WordCount(text) == IF text = <<>> THEN 0 ELSE WordsIn(Head(text)) + WordCount(Tail(text))

\* re.search(r'\d', ...) on a token
HasDigit(tok) == tok.k \in {"date", "time", "phone"}

name_keywords ==
    {"appointment", "schedule", "book", "checkup", "cleaning", "pain", "emergency",
     "monday", "tuesday", "wednesday", "thursday", "friday", "saturday", "sunday",
     "tomorrow", "phone", "contact", "am", "pm", ":"}

\* msg_content.title()
title(text) ==
    [i \in 1..Len(text) |->
        IF text[i].k = "word" THEN Word(Title(text[i].s)) ELSE text[i]]

FirstOf(text, P) == IF P = {} THEN None ELSE Some(text[Min(P)])

\* the five fields before the scan
NoSlots ==
    [patient_name |-> <<>>, appointment_reason |-> None, appointment_date_str |-> None,
     appointment_time_str |-> None, appointment_phone |-> None]

\* the name rule of one human turn (lines 813-817); "" when it does not apply
name_of(msg) ==
    IF WordCount(msg) <= 4 /\ ~Contains(msg, name_keywords)
       /\ ~(\E i \in 1..Len(msg) : HasDigit(msg[i]))
    THEN title(msg) ELSE <<>>

\* the reason rule (lines 819-828)
reason_of(msg) ==
    IF Contains(msg, {"checkup"}) THEN Some("Checkup")
    ELSE IF Contains(msg, {"cleaning"}) THEN Some("Cleaning")
    ELSE IF Contains(msg, {"pain"}) THEN Some("Pain")
    ELSE IF Contains(msg, {"emergency"}) THEN Some("Emergency")
    ELSE None

\* the date rule (lines 830-834): a day number followed by a month name; the
\* match runs on over the white space that follows it, so `last` records
\* whether the date ended the turn
date_of(msg) ==
    LET P == {i \in 1..Len(msg) : msg[i].k = "date" /\ msg[i].s \in {"D Month", "D Mon"}}
    IN IF P = {} THEN None
       ELSE Some([tok |-> msg[Min(P)], last |-> Min(P) = Len(msg)])

\* the time rule (lines 836-842)
time_of(msg) ==
    IF Contains(msg, {"availability at", "prefer for your appointment"}) THEN None
    ELSE LET P == {i \in 1..Len(msg) : msg[i].k = "time"}
         IN IF P = {} THEN None
            ELSE Some([msg[Min(P)] EXCEPT !.s = IF @ \in {"am", "AM"} THEN "AM" ELSE "PM"])

\* the phone rule (lines 844-848)
phone_of(msg) == FirstOf(msg, {i \in 1..Len(msg) : msg[i].k = "phone"})

\* variant: a later turn replaces the name
scan_turn_last_name(s, msg) ==
    [patient_name |-> IF name_of(msg) # <<>> THEN name_of(msg) ELSE s.patient_name,
     appointment_reason |->
        IF s.appointment_reason = None THEN reason_of(msg) ELSE s.appointment_reason,
     appointment_date_str |->
        IF s.appointment_date_str = None THEN date_of(msg) ELSE s.appointment_date_str,
     appointment_time_str |->
        IF s.appointment_time_str = None THEN time_of(msg) ELSE s.appointment_time_str,
     appointment_phone |->
        IF s.appointment_phone = None THEN phone_of(msg) ELSE s.appointment_phone]

\* the body of `for message in history` for one HumanMessage (lines 810-848)
scan_turn(s, msg) ==
    [patient_name |-> IF s.patient_name = <<>> THEN name_of(msg) ELSE s.patient_name,
     appointment_reason |->
        IF s.appointment_reason = None THEN reason_of(msg) ELSE s.appointment_reason,
     appointment_date_str |->
        IF s.appointment_date_str = None THEN date_of(msg) ELSE s.appointment_date_str,
     appointment_time_str |->
        IF s.appointment_time_str = None THEN time_of(msg) ELSE s.appointment_time_str,
     appointment_phone |->
        IF s.appointment_phone = None THEN phone_of(msg) ELSE s.appointment_phone]

\* for message in history (lines 808-848), from the fields found so far
RECURSIVE scan_history(_, _)
scan_history(s, history) ==
    IF history = <<>> THEN s
    ELSE scan_history(scan_turn(s, Head(history)), Tail(history))

\* ---------------------------------------------------------- summary stage

\* input_text of DentalChatbot.chat: the date instruction, then the message
input_text(today, msg) ==
    <<Word("SYSTEM: Today is"), Day(weekday(today)), Stamp(today),
      Word("Next"), Day(1), Stamp(next_dates(today)[1]), Word("User message:")>> \o msg

MonthNames ==
    <<"January", "February", "March", "April", "May", "June", "July", "August",
      "September", "October", "November", "December">>

\* the token starts with a word matching [A-Z][a-z]+
Capitalized(tok) ==
    \/ tok.k = "day"
    \/ tok.k = "word" /\ tok.s \in {"Rohit", "Jordan", "Sam", "John", "Next", "Yes"}
    \/ tok.k = "date" /\ tok.s = "Month D"

\* the capitalized word a token starts with
CapWord(tok) == IF tok.k = "date" THEN Word(MonthNames[tok.m]) ELSE tok

\* two capitalized words separated by white space only
NameLike(text) ==
    \E i \in 1..(Len(text) - 1) :
        /\ text[i].k \in {"day", "word"} /\ Capitalized(text[i])
        /\ Capitalized(text[i + 1])

has_specific_appointment_details(input) ==
    \/ NameLike(input)
    \/ \E i \in 1..Len(input) :
          \/ input[i].k = "phone"
          \/ input[i].k = "time" /\ input[i].y = 1
          \/ input[i].k = "date" /\ input[i].s \in {"Month D", ", Month D", "D Month"}

is_confirmed_booking(resp, input) ==
    \/ Contains(resp, {"confirmed", "scheduled", "booked", "finalized"})
    \/ /\ Contains(resp, {"appointment"})
       /\ Contains(resp, {"scheduled for", "booked for", "appointment for"})
       /\ has_specific_appointment_details(input)

is_cancellation_or_change(resp, input) ==
    \/ Contains(resp, {"cancel", "cancelled", "cancellation", "change", "reschedule",
                       "modify", "update"})
    \/ Contains(input, {"cancel", "change", "reschedule", "modify", "update",
                        "different time", "different date"})

\* input_text.split("User message:")[-1].strip().lower() is a bare confirmation
is_confirmation_only(input) ==
    LET marks == {i \in 1..Len(input) : input[i] = Word("User message:")}
        um == IF marks = {} THEN input
              ELSE SubSeq(input, (CHOOSE i \in marks : \A j \in marks : j <= i) + 1, Len(input))
    IN /\ Len(um) = 1
       /\ um[1].k = "word"
       /\ Lower(um[1].s) \in {"confirm", "yes", "ok", "okay", "yes please", "yes, please"}

SummaryMarkers ==
    {Word("**Appointment Summary:**"), Word("**Patient Name:**"),
     Word("**Date & Time:**"), Word("**Appointment Type:**")}

has_existing_summary(resp) == \E i \in 1..Len(resp) : resp[i] \in SummaryMarkers

\* variant: the existing block is not looked for
summary_triggered_again(resp, input) ==
    /\ is_confirmed_booking(resp, input)
    /\ ~is_cancellation_or_change(resp, input)
    /\ ~is_confirmation_only(input)

\* the condition of line 793
summary_triggered(resp, input) ==
    /\ is_confirmed_booking(resp, input)
    /\ ~has_existing_summary(resp)
    /\ ~is_cancellation_or_change(resp, input)
    /\ ~is_confirmation_only(input)

\* the name patterns tried on the response (lines 851-860)
name_from_response(resp) ==
    LET ends == {i \in 1..(Len(resp) - 1) :
                    resp[i].k = "word" /\ resp[i].s \in {"appointment for", "confirmed for"}
                    /\ Capitalized(resp[i + 1])}
        starts == {i \in 1..(Len(resp) - 1) :
                    Capitalized(resp[i]) /\ resp[i].k \in {"day", "word"}
                    /\ resp[i + 1].k = "word" /\ resp[i + 1].s \in {"for checkup"}}
        Two(i) == IF /\ i < Len(resp) /\ resp[i].k \in {"day", "word"}
                     /\ Capitalized(resp[i + 1])
                  THEN <<CapWord(resp[i]), CapWord(resp[i + 1])>>
                  ELSE <<CapWord(resp[i])>>
    IN IF ends # {} THEN Two(Min(ends) + 1)
       ELSE IF starts # {} THEN <<CapWord(resp[Min(starts)])>>
       ELSE <<>>

\* the time normalised to "H:MM AM" (lines 865-873)
normalize_time(t) == [t EXCEPT !.y = 1]

\* the first "H:MM AM" of the response (lines 879-883)
time_from_response(resp) ==
    IF Contains(resp, {"availability at"}) THEN None
    ELSE FirstOf(resp, {i \in 1..Len(resp) : resp[i].k = "time" /\ resp[i].y = 1})

\* lines 887-904: the date slot parsed with '%d %b %Y', '%d %B %Y', '%d %b',
\* '%d %B' after every 'st', 'nd', 'rd', 'th' was deleted from it
day_date_from_slot(ds) ==
    IF ds = None THEN None
    ELSE IF ~ds[1].last \/ ds[1].tok.m = 8 THEN None
    ELSE LET p == strptime(ds[1].tok)
         IN IF p = None THEN None
            ELSE Some(<<Day(weekday(p[1])), Stamp(p[1])>>)

\* lines 907-918: the first weekday of the list that occurs in the response
day_date_from_response(resp, today) ==
    LET M == {W \in Weekdays : Contains(resp, {DayNames[W + 1]})}
    IN IF M = {} THEN None
       ELSE Some(Replacement(Min(M), next_dates(today), today))

\* variant: the time of the response is preferred to the time of the history
summary_fields_response_first(resp, today, history) ==
    LET s == scan_history(NoSlots, history)
        fromSlot == day_date_from_slot(s.appointment_date_str)
    IN [patient_name |-> IF s.patient_name # <<>> THEN s.patient_name
                         ELSE name_from_response(resp),
        time_str |-> IF time_from_response(resp) # None
                     THEN time_from_response(resp)
                     ELSE IF s.appointment_time_str # None
                     THEN Some(normalize_time(s.appointment_time_str[1]))
                     ELSE None,
        day_date |-> IF fromSlot # None THEN fromSlot
                     ELSE day_date_from_response(resp, today),
        appointment_reason |-> s.appointment_reason,
        appointment_phone |-> s.appointment_phone]

\* the values the summary block is built from (lines 796-918)
summary_fields(resp, today, history) ==
    LET s == scan_history(NoSlots, history)
        fromSlot == day_date_from_slot(s.appointment_date_str)
    IN [patient_name |-> IF s.patient_name # <<>> THEN s.patient_name
                         ELSE name_from_response(resp),
        time_str |-> IF s.appointment_time_str # None
                     THEN Some(normalize_time(s.appointment_time_str[1]))
                     ELSE time_from_response(resp),
        day_date |-> IF fromSlot # None THEN fromSlot
                     ELSE day_date_from_response(resp, today),
        appointment_reason |-> s.appointment_reason,
        appointment_phone |-> s.appointment_phone]

\* the appended block (lines 920-933)
SummaryBlock(f) ==
    <<Word("**Appointment Summary:**")>>
    \o (IF f.patient_name # <<>> THEN <<Word("**Patient Name:**")>> \o f.patient_name ELSE <<>>)
    \o <<Word("**Date & Time:**")>> \o f.day_date[1] \o <<f.time_str[1]>>
    \o (IF f.appointment_reason # None
        THEN <<Word("**Reason:**"), Word(f.appointment_reason[1])>> ELSE <<>>)
    \o (IF f.appointment_phone # None
        THEN <<Word("**Contact:**"), f.appointment_phone[1]>> ELSE <<>>)
    \o <<Word("click the 'Confirm Appointment' button")>>

\* lines 743-935
summary_stage(resp, today, input, history) ==
    IF ~summary_triggered(resp, input) THEN resp
    ELSE LET f == summary_fields(resp, today, history)
         IN IF f.time_str # None /\ f.day_date # None
            THEN resp \o SummaryBlock(f)
            ELSE resp

\* DentalChatbot._apply_date_replacements(response, today, input_text, session)
apply_date_replacements(resp, today, input, history) ==
    summary_stage(date_stages(resp, today, input), today, input, history)

\* ------------------------------------------------------ the stub provider

\* the words of MockLLM's answers and the listed keywords they contain are
\* given by WordKeywords

\* int(time_match.group(1)) converted to the 24-hour clock (lines 144-151)
hour24(t) ==
    IF t.s \in {"pm", "PM"} /\ t.d # 12 THEN t.d + 12
    ELSE IF t.s \in {"am", "AM"} /\ t.d = 12 THEN 0
    ELSE t.d

\* the fixed out-of-hours message, quoting the requested time
OutOfHoursMessage(t) ==
    <<Word("our clinic hours are"), Day(0), Word("-"), Day(4), Day(5), t,
      Word("outside our business hours"), Word("availability at"),
      TimeTok(9, 0, TRUE, "AM"), TimeTok(4, 30, TRUE, "PM")>>

\* lines 142-160: the answer to a message that gives a time
time_reply(t) ==
    IF hour24(t) < 8 \/ hour24(t) > 18
    THEN OutOfHoursMessage(t)
    ELSE <<Word("What's your contact phone number?")>>

\* MockLLM._get_mock_response for a prompt that is about an appointment, as
\* a function of the user's message (lines 64-166)
mock_response(msg) ==
    LET times == {i \in 1..Len(msg) : msg[i].k = "time"}
        dates == {i \in 1..Len(msg) : msg[i].k = "date"}
        parsed == IF dates = {} THEN None ELSE strptime([msg[Min(dates)] EXCEPT !.y = 0])
        one(w) == Len(msg) = 1 /\ msg[1].k = "word" /\ Lower(msg[1].s) = w
    IN IF one("confirm") \/ one("yes")
       THEN <<Word("Your appointment has been confirmed")>>
       ELSE IF name_of(msg) # <<>> \/ msg = <<>>
       THEN <<Word("What's the reason for your visit")>>
       ELSE IF Contains(msg, {"checkup", "cleaning", "pain", "emergency", "consultation"})
       THEN <<Word("What's your preferred date and time for the appointment?")>>
       ELSE IF dates # {} \/ Contains(msg, {"monday", "tuesday", "wednesday", "thursday",
                                           "friday", "saturday", "tomorrow", "next week"})
       THEN (IF parsed # None /\ weekday(parsed[1]) = 6
             THEN ClosedDayMessage(FullDate(parsed[1]))
             ELSE IF Contains(msg, {"sunday"})
             THEN <<Word("closed on Sundays"), Day(0), Word("-"), Day(4), Day(5),
                    Word("choose a different day")>>
             ELSE <<Word("What time would you prefer for your appointment?"),
                    Word("availability at"), TimeTok(9, 0, TRUE, "AM"),
                    TimeTok(4, 30, TRUE, "PM")>>)
       ELSE IF Contains(msg, {"am", "pm", ":"})
       THEN (IF times # {} THEN time_reply(msg[Min(times)])
             ELSE <<Word("What's your contact phone number?")>>)
       ELSE IF Contains(msg, {"phone", "contact"}) \/ \E i \in 1..Len(msg) : msg[i].k = "phone"
       THEN <<Word("Your appointment is confirmed for checkup")>>
       ELSE <<Word("I'd be happy to help you schedule an appointment")>>

\* -------------------------------------------------- rewrite specification
\* One chat request after the provider has answered: the response is
\* post-processed, and the result is post-processed again.

\* chat, lines 266-273: the date placeholders become the current date
placeholders(resp, today) ==
    IF resp = <<>> THEN <<>>
    ELSE LET F[i \in 0..Len(resp)] ==
                 IF i = 0 THEN <<>>
                 ELSE F[i - 1] \o (IF resp[i] = Word("[insert date]")
                                   THEN <<Day(weekday(today)), Stamp(today)>>
                                   ELSE <<resp[i]>>)
         IN F[Len(resp)]

\* chat, lines 259-322: the post-processing of a response
post_process(resp, today, msg, history) ==
    apply_date_replacements(placeholders(resp, today), today, input_text(today, msg), history)

\* the human turns a session holds once the chain has saved the current
\* request: for every earlier message the prompt built around it and the
\* message itself, then the prompt of the current message
session_turns(today, earlier, msg) ==
    LET F[i \in 0..Len(earlier)] ==
            IF i = 0 THEN <<>>
            ELSE F[i - 1] \o <<input_text(today, earlier[i]), earlier[i]>>
    IN F[Len(earlier)] \o <<input_text(today, msg)>>

Oct25 == DateTok("Month D", 0, 10, 25)      \* a Saturday in 2025
Oct26 == DateTok("Month D", 0, 10, 26)      \* a Sunday in 2025
Feb30 == DateTok("Month D", 0, 2, 30)       \* no such day

ResponseHeads ==
    {<<>>, <<Word("appointment for")>>, <<Word("hours")>>, <<Word("confirmed")>>,
     <<Word("cancel")>>}

ResponseBodies ==
    {<<>>,
     <<Day(1)>>,
     <<TomorrowTok>>,
     <<Word("next"), Day(1)>>,
     <<Word("[insert date]")>>,
     <<Day(0), Word("-"), Day(4)>>,
     <<Day(0), Word("through"), Day(4)>>,
     <<Word("your appointment is"), Day(1), TimeTok(4, 30, TRUE, "PM")>>,
     <<Day(1), DateTok(", Month D", 0, 10, 25)>>,
     <<Day(1), DateTok(", Month D", 0, 2, 30)>>,
     <<Day(6), DateTok(", Month D", 2025, 10, 26), TimeTok(10, 0, TRUE, "AM")>>,
     <<Oct26>>,
     <<Word("**Appointment Summary:**"), Word("**Date & Time:**"), Day(1),
       DateTok(", Month D", 2025, 10, 28), TimeTok(2, 0, TRUE, "PM")>>}

RawResponses == {h \o b : h \in ResponseHeads, b \in ResponseBodies}

UserMessages ==
    {<<Word("hi")>>, <<Word("confirm")>>, <<Word("cancel")>>, <<Word("Rohit")>>,
     <<Oct25>>, <<Oct26>>, <<Feb30>>,
     <<TimeTok(6, 30, TRUE, "pm")>>, <<TimeTok(7, 0, FALSE, "am")>>,
     <<TimeTok(2, 0, FALSE, "pm")>>}

EarlierMessages ==
    {<<>>,
     <<<<Word("rohit")>>>>,
     <<<<Word("rohit")>>, <<Word("checkup")>>, <<DateTok("D Mon", 0, 10, 25)>>,
       <<TimeTok(2, 0, FALSE, "pm")>>, <<PhoneTok("5551234567")>>>>,
     <<<<DateTok("D Month", 0, 10, 26), TimeTok(10, 0, TRUE, "am")>>>>}

InitRewrite ==
    /\ now = 0
    /\ nextId = 1
    /\ objs = <<>>
    /\ sessions = {}
    /\ reqs = EmptyBag
    /\ chatsIssued = 0
    /\ pendingSweeps = 0
    /\ sweepsScheduled = 0
    /\ sweep = IdleSweep
    /\ lastCall = Call("init", 0, None, "", "", 0)
    /\ stopped = FALSE
    /\ anchor \in AnchorBase..(AnchorBase + RewriteSpan)
    /\ computed = None
    /\ response \in RawResponses
    /\ message \in UserMessages
    /\ \E earlier \in EarlierMessages : turns = session_turns(anchor, earlier, message)
    /\ rewritten = <<>>
    /\ slots = None

\* the provider is the stub: its answer to the message is the response
MockRespond ==
    /\ rewritten = <<>>
    /\ response' = mock_response(message)
    /\ response' # response
    /\ UNCHANGED <<message, turns, rewritten, slots>>
    /\ UNCHANGED calendarVars
    /\ UNCHANGED storeVars

\* the text the next pass works on
Current == IF rewritten = <<>> THEN response ELSE rewritten[Len(rewritten)]

\* the response, or the result of the pass before, is post-processed
Rewrite ==
    /\ Len(rewritten) < MaxPasses
    /\ rewritten' = Append(rewritten, post_process(Current, anchor, message, turns))
    /\ UNCHANGED <<response, message, turns, slots>>
    /\ UNCHANGED calendarVars
    /\ UNCHANGED storeVars

NextRewrite ==
    \/ MockRespond
    \/ Rewrite

SpecRewrite == InitRewrite /\ [][NextRewrite]_vars

\* ----------------------------------------------------- slot specification
\* A session collects user messages; the fields are extracted from the
\* human turns it holds.

SlotMessages ==
    {<<Word("Rohit")>>, <<Word("Jordan")>>, <<Word("Sam")>>, <<Word("checkup")>>,
     <<Word("cleaning")>>, <<TimeTok(2, 0, FALSE, "pm")>>, <<TimeTok(3, 30, TRUE, "pm")>>,
     <<DateTok("D Mon", 0, 10, 25)>>, <<DateTok("D Month", 0, 10, 28)>>,
     <<PhoneTok("5551234567")>>, <<PhoneTok("5559876543")>>}

InitSlots ==
    /\ now = 0
    /\ nextId = 1
    /\ objs = <<>>
    /\ sessions = {}
    /\ reqs = EmptyBag
    /\ chatsIssued = 0
    /\ pendingSweeps = 0
    /\ sweepsScheduled = 0
    /\ sweep = IdleSweep
    /\ lastCall = Call("init", 0, None, "", "", 0)
    /\ stopped = FALSE
    /\ anchor = AnchorBase
    /\ computed = None
    /\ response = <<>>
    /\ message = <<>>
    /\ turns = <<>>
    /\ rewritten = <<>>
    /\ slots = None

\* a chat request with message m completes: the chain saves the prompt built
\* around m, add_message saves m
HumanTurn(m) ==
    /\ Len(turns) < 2 * MaxHumanTurns
    /\ turns' = turns \o <<input_text(anchor, m), m>>
    /\ message' = m
    /\ UNCHANGED <<response, rewritten, slots>>
    /\ UNCHANGED calendarVars
    /\ UNCHANGED storeVars

\* the summary stage scans the history
Extract ==
    /\ slots' = Some(scan_history(NoSlots, turns))
    /\ slots' # slots
    /\ UNCHANGED <<response, message, turns, rewritten>>
    /\ UNCHANGED calendarVars
    /\ UNCHANGED storeVars

NextSlots ==
    \/ \E m \in SlotMessages : HumanTurn(m)
    \/ Extract

SpecSlots == InitSlots /\ [][NextSlots]_vars

\* ---------------------------------------------------- years specification
\* The rewrite of a response for an anchor in 2025 and for the same day of
\* 2026.

YearAnchors == {AnchorBase, AnchorBase + 365}

InitYears ==
    /\ now = 0
    /\ nextId = 1
    /\ objs = <<>>
    /\ sessions = {}
    /\ reqs = EmptyBag
    /\ chatsIssued = 0
    /\ pendingSweeps = 0
    /\ sweepsScheduled = 0
    /\ sweep = IdleSweep
    /\ lastCall = Call("init", 0, None, "", "", 0)
    /\ stopped = FALSE
    /\ anchor \in YearAnchors
    /\ computed = None
    /\ response \in RawResponses
    /\ message \in UserMessages
    /\ \E earlier \in EarlierMessages : turns = session_turns(anchor, earlier, message)
    /\ rewritten = <<>>
    /\ slots = None

SpecYears == InitYears /\ [][NextRewrite]_vars

\* ---------------------------------------------------- dates specification
\* The places of one chat request that map a weekday name to a date.

\* monday .. sunday of the date context of _create_prompt_template
prompt_dates(today) ==
    LET first == today + ((7 - weekday(today)) % 7)
        monday == IF first <= today THEN first + 7 ELSE first
    IN [W \in Weekdays |-> monday + W]

\* _create_prompt_template fills the date context of the system prompt
PromptTemplate ==
    /\ computed' = Some([via |-> "prompt", today |-> anchor, dates |-> prompt_dates(anchor)])
    /\ UNCHANGED anchor
    /\ UNCHANGED storeVars
    /\ UNCHANGED rewriteVars

\* the vague phrases ('next Tuesday', ...) are replaced
VaguePhrases ==
    /\ computed' = Some([via |-> "vague", today |-> anchor, dates |-> next_dates(anchor)])
    /\ UNCHANGED anchor
    /\ UNCHANGED storeVars
    /\ UNCHANGED rewriteVars

\* the bare weekday names are replaced outside the scheduling branch
BareWeekdays ==
    /\ computed' = Some([via |-> "bare", today |-> anchor, dates |-> next_dates(anchor)])
    /\ UNCHANGED anchor
    /\ UNCHANGED storeVars
    /\ UNCHANGED rewriteVars

\* the bare weekday names are replaced in the scheduling branch
SchedulingWeekdays ==
    /\ computed' = Some([via |-> "scheduling", today |-> anchor,
                         dates |-> next_week_dates(anchor)])
    /\ UNCHANGED anchor
    /\ UNCHANGED storeVars
    /\ UNCHANGED rewriteVars

NextDates ==
    \/ PromptTemplate
    \/ VaguePhrases
    \/ BareWeekdays
    \/ SchedulingWeekdays

SpecDates == InitCalendar /\ [][NextDates]_vars

\* ------------------------------------------------------ the anchor of chat
\* The service starts one tick of the clock before midnight of the day
\* AnchorBase.

MinutesPerDay == 24 * 60
ClockStart == MinutesPerDay - TickMinutes

\* the date of datetime.now() at the time t of the clock
date_at(t) == AnchorBase + (ClockStart + t) \div MinutesPerDay

\* `today` of the date instruction chat puts before the message, and of the
\* prompt template built just before it
instruction_today(q) == date_at(q.today)

\* `today` of the post-processing, read when the provider has returned at
\* the time t
post_processing_today(t) == date_at(t)

\* ================================================================ claims

Expired(sid) == now - objs[sid].last_activity > SESSION_TIMEOUT_MINUTES

\* C1: for a session S in the store, get_session(S) returns None and leaves
\* the store without S when now - last_activity(S) > timeout; otherwise it
\* returns S and leaves the store as it was.
C1_GetSession ==
    \A sid \in sessions :
        LET g == get_session(sessions, objs, sid, now)
        IN IF Expired(sid)
           THEN g.ret = None /\ g.sessions = sessions \ {sid}
           ELSE g.ret = Some(sid) /\ g.sessions = sessions

\* an expired session was evicted by the get_session call that found it
C1_Witness ==
    /\ lastCall.op = "get_session"
    /\ lastCall.ret = None
    /\ lastCall.log = "expired"
    /\ lastCall.sid \notin sessions
    /\ Expired(lastCall.sid)

\* C2: add_message(human, ai) appends the pair as the newest history entry,
\* sets last_activity to the current time and adds exactly one to
\* message_count; identity, creation time and the earlier entries stay.
C2_AddMessage ==
    [][\A sid \in SessionIds, h \in HistoryMessages, r \in Responses :
          RecordTurn(sid, h, r) =>
              LET old == objs[sid]
                  new == objs'[sid]
              IN /\ new.history = Append(old.history, <<UserText(h), FinalResponse(r)>>)
                 /\ new.last_activity = now
                 /\ new.message_count = old.message_count + 1
                 /\ new.session_id = old.session_id
                 /\ new.user_id = old.user_id
                 /\ new.created_at = old.created_at]_vars

\* a second turn was recorded later than the session was created
C2_Witness ==
    /\ lastCall.op = "add_message"
    /\ Len(objs[lastCall.sid].history) >= 2
    /\ objs[lastCall.sid].history[1] # objs[lastCall.sid].history[2]
    /\ objs[lastCall.sid].last_activity > objs[lastCall.sid].created_at

\* C3: the history of a session never holds more than
\* MAX_CONVERSATION_HISTORY turns, however many turns are recorded.
C3_BoundedHistory ==
    \A sid \in DOMAIN objs : Len(objs[sid].history) <= MAX_CONVERSATION_HISTORY

ExpiredIn(S) == {sid \in S : Expired(sid)}

\* C4 as stated: after the sweep the store holds no session that was expired
\* when it started, every other session is kept unchanged, and the call
\* returns the number of sessions it removed.
C4_SweepReturnsCount ==
    [][Shutdown =>
          /\ sessions' = sessions \ ExpiredIn(sessions)
          /\ objs' = objs
          /\ lastCall'.ret = Some(Cardinality(ExpiredIn(sessions)))]_vars

\* C4 amended: after a cleanup_expired_sessions call that runs without
\* interleaving the store holds no session that was expired when it started
\* and every other session is kept unchanged; the call returns None, the
\* number of removed sessions is only logged (and logged only when positive).
\* The background run of the function returns None as well.
C4_SweepReturnsNone ==
    [][/\ Shutdown =>
            /\ sessions' = sessions \ ExpiredIn(sessions)
            /\ objs' = objs
            /\ lastCall'.ret = None
            /\ lastCall'.n = Cardinality(ExpiredIn(sessions))
            /\ (lastCall'.log = "cleaned") = (ExpiredIn(sessions) # {})
       /\ SweepFinish => lastCall'.ret = None /\ lastCall'.n = sweep.found]_vars

\* a sweep removed an expired session and kept a live one
C4_Witness ==
    /\ lastCall.op = "shutdown"
    /\ lastCall.n >= 1
    /\ sessions # {}
    /\ \A sid \in sessions : ~Expired(sid)

\* C5: end_session(S) removes S whether or not it is expired, touches no
\* other session, and is idempotent: on an absent id, and when repeated, it
\* raises nothing and leaves the store as the first call left it.
C5_EndSession ==
    [][/\ \A sid \in SessionIds :
            LET e == end_session(sessions, sid)
                again == end_session(e.sessions, sid)
            IN /\ ~e.raised
               /\ e.sessions = sessions \ {sid}
               /\ ~again.raised
               /\ again.sessions = e.sessions
       /\ \A sid \in SessionIds :
            EndSession(sid) => sessions' = sessions \ {sid} /\ objs' = objs]_vars

\* a session that had not expired was ended while another one stayed
C5_Witness ==
    /\ lastCall.op = "end_session"
    /\ lastCall.status = "204"
    /\ lastCall.sid \notin sessions
    /\ ~Expired(lastCall.sid)
    /\ sessions # {}

\* C6: the background sweep never sees the session dictionary change while
\* it iterates it, and no sweep fails because of a concurrent create or end.
C6_SweepExclusion ==
    /\ sweep.pc = "iter" => sweep.used = Cardinality(sessions)
    /\ lastCall.status # "RuntimeError"

Completes(sid) ==
    \E q \in BagToSet(reqs), r \in Responses : q.sid = sid /\ ProviderReturn(q, r)

\* C7: no update of message_count or last_activity is lost: every chat
\* request that completes adds exactly one to the counter of its session and
\* stamps last_activity with the time of that turn, whatever other requests
\* on the same session are in flight, and no other step changes either field.
C7_NoLostUpdate ==
    [][\A sid \in DOMAIN objs :
          IF Completes(sid)
          THEN /\ objs'[sid].message_count = objs[sid].message_count + 1
               /\ objs'[sid].last_activity = now
          ELSE /\ objs'[sid].message_count = objs[sid].message_count
               /\ objs'[sid].last_activity = objs[sid].last_activity]_vars

\* a chat completed on a session while another chat on it was still in flight
C7_Witness ==
    /\ lastCall.op = "chat"
    /\ lastCall.status = "200"
    /\ lastCall.log = ""
    /\ lastCall.n = objs[lastCall.sid].message_count
    /\ \E q \in BagToSet(reqs) : q.sid = lastCall.sid

\* the steps a chat request takes before its provider call has completed
BeforeCompletion ==
    \/ \E m \in Messages : ChatBeginNew(m)
    \/ \E sid \in SessionIds, m \in Messages : ChatBeginExisting(sid, m) /\ reqs' # reqs
    \/ \E q \in BagToSet(reqs) : ProviderFail(q)
    \/ \E q \in BagToSet(reqs) : Abort(q)

\* C8 as stated: up to an abort or a provider failure a chat request has
\* changed neither the set of sessions in the store nor any session.
C8_NoMutationAtAll ==
    [][BeforeCompletion => sessions' = sessions /\ objs' = objs]_vars

\* C8 amended: up to an abort or a provider failure a chat request has
\* changed no session that existed before it and removed none; the only
\* change it can have made is to add the new, empty session of a request
\* that named no session id.  Turns are recorded only by the step that
\* follows the provider's response.
C8_NoTurnBeforeResponse ==
    [][/\ BeforeCompletion =>
            /\ \A sid \in DOMAIN objs : objs'[sid] = objs[sid]
            /\ sessions \subseteq sessions'
            /\ \A sid \in sessions' \ sessions :
                  /\ sid \notin DOMAIN objs
                  /\ objs'[sid].history = <<>>
                  /\ objs'[sid].message_count = 0
            /\ (\E sid \in SessionIds, m \in Messages : ChatBeginExisting(sid, m))
                  => sessions' = sessions /\ objs' = objs
       /\ \A sid \in DOMAIN objs :
            Len(objs'[sid].history) > Len(objs[sid].history) => Completes(sid)]_vars

\* a request was cancelled, or its provider call failed, on a session that
\* still has no turn
C8_Witness ==
    /\ lastCall.op = "chat"
    /\ lastCall.status = "cancelled" \/ lastCall.log = "provider_error"
    /\ lastCall.sid \in sessions
    /\ objs[lastCall.sid].history = <<>>
    /\ objs[lastCall.sid].message_count = 0

\* C9: last_activity of a session never decreases, and created_at never
\* exceeds it.
C9_ActivityMonotone ==
    [][/\ \A sid \in DOMAIN objs :
            objs'[sid].last_activity >= objs[sid].last_activity
       /\ \A sid \in DOMAIN objs' :
            objs'[sid].created_at <= objs'[sid].last_activity]_vars

\* a session with recorded activity after its creation had its history cleared
C9_Witness ==
    /\ lastCall.op = "clear_session_history"
    /\ objs[lastCall.sid].message_count >= 1
    /\ objs[lastCall.sid].last_activity > objs[lastCall.sid].created_at

\* C10: the date computed as the next occurrence of weekday W lies strictly
\* after the anchor and at most 7 days after it, falls on W, and is the
\* anchor plus 7 days when the anchor itself falls on W.
C10_NextOccurrence ==
    computed # None =>
        LET c == computed[1]
        IN \A W \in Weekdays :
              /\ c.dates[W] > c.today
              /\ c.dates[W] <= c.today + 7
              /\ weekday(c.dates[W]) = W
              /\ weekday(c.today) = W => c.dates[W] = c.today + 7

\* the dates were computed for an anchor that is a Sunday
C10_Witness ==
    /\ computed # None
    /\ weekday(computed[1].today) = 6
    /\ computed[1].dates[6] = computed[1].today + 7
    /\ computed[1].dates[0] = computed[1].today + 1

\* ------------------------------------------------ claims on the rewrite

\* number of summary blocks of a text
Blocks(text) ==
    Cardinality({i \in 1..Len(text) : text[i] = Word("**Appointment Summary:**")})

\* the text the i-th pass received
PassInput(i) == IF i = 1 THEN response ELSE rewritten[i - 1]

\* the i-th pass appended a summary block
Appended(i) == Blocks(rewritten[i]) > Blocks(PassInput(i))

\* C11: rewriting a text that was already rewritten, with the same anchor,
\* user message and session, returns it unchanged: nothing already stamped
\* is stamped a second time.
C11_Idempotent ==
    Len(rewritten) >= 2 => rewritten[2] = rewritten[1]

\* C12: a rewritten text holds at most one summary block, and a text that
\* already holds a block or one of its field labels gets none appended.
C12_AtMostOneSummary ==
    \A i \in 1..Len(rewritten) :
        /\ Blocks(rewritten[i]) <= 1
        /\ has_existing_summary(PassInput(i)) => ~Appended(i)

\* the first pass appended the block to a text without one, and the second
\* pass, given that result, left the count at one
C12_Witness ==
    /\ Len(rewritten) >= 2
    /\ Blocks(response) = 0
    /\ Appended(1)
    /\ Blocks(rewritten[2]) = 1

\* the text is the closed-day message and nothing else
IsClosedDayMessage(text) ==
    /\ Len(text) = Len(ClosedDayMessage(Day(6)))
    /\ text = ClosedDayMessage(text[2])

\* the text names a Sunday: the weekday token, or a date that falls on one
MentionsSunday(text) ==
    \E i \in 1..Len(text) :
        \/ text[i] = Day(6)
        \/ /\ text[i].k = "date"
           /\ strptime(text[i]) # None
           /\ weekday(strptime(text[i])[1]) = 6

\* C13: when the user's message or the model text names a Sunday, the
\* result is the closed-day message, never a confirmation with a summary.
C13_SundayClosed ==
    (rewritten # <<>> /\ (MentionsSunday(message) \/ MentionsSunday(response)))
        => IsClosedDayMessage(rewritten[1])

\* business hours of the clinic by weekday (0 = Monday)
InBusinessHours(W, h) ==
    \/ W \in 0..4 /\ h >= 8 /\ h < 18
    \/ W = 5 /\ h >= 9 /\ h < 14

\* the message is one time of day, and InBusinessHours rejects it for
\* every weekday
LoneTimeOutOfHours ==
    /\ Len(message) = 1
    /\ message[1].k = "time"
    /\ \A W \in Weekdays : ~InBusinessHours(W, hour24(message[1]))

\* C14: a user message giving a time outside business hours is answered by
\* the fixed out-of-hours message, quoting the time, and by no summary.
C14_OutOfHours ==
    (rewritten # <<>> /\ response = mock_response(message) /\ LoneTimeOutOfHours)
        => rewritten[1] = OutOfHoursMessage(message[1])

\* the weekday of the user's explicit date, when the message gives one
UserDateWeekday ==
    LET dm == user_date_match(message)
    IN IF dm = None \/ strptime(dm[1]) = None THEN None
       ELSE Some(weekday(strptime(dm[1])[1]))

\* position of a weekday name that follows "your appointment is"
AnnouncedDay(text) ==
    {i \in 2..Len(text) : text[i - 1] = Word("your appointment is") /\ text[i].k = "day"}

\* C15: when the user gave an explicit date and the model text announces
\* the appointment on another weekday, the result announces it on the
\* weekday of the user's date.
C15_WeekdayFollowsUserDate ==
    (/\ rewritten # <<>>
     /\ UserDateWeekday # None
     /\ UserDateWeekday # Some(6)
     /\ \E i \in AnnouncedDay(response) : response[i].d # UserDateWeekday[1])
        => \A i \in AnnouncedDay(rewritten[1]) : rewritten[1][i].d = UserDateWeekday[1]

\* --------------------------------------------- claims on the slot fields

SlotFields ==
    {"patient_name", "appointment_reason", "appointment_date_str",
     "appointment_time_str", "appointment_phone"}

\* the value the rule gives on the first of the turns that matches it
FirstMatch(rule(_), history) ==
    LET P == {i \in 1..Len(history) : rule(history[i]) # <<>>}
    IN IF P = {} THEN <<>> ELSE rule(history[Min(P)])

\* C16: each field holds the value of the first human turn that matches its
\* rule, and a field that was filled keeps its value whatever turns follow.
C16_FirstTurnWins ==
    LET now_ == scan_history(NoSlots, turns)
    IN /\ now_.patient_name = FirstMatch(name_of, turns)
       /\ now_.appointment_reason = FirstMatch(reason_of, turns)
       /\ now_.appointment_date_str = FirstMatch(date_of, turns)
       /\ now_.appointment_time_str = FirstMatch(time_of, turns)
       /\ now_.appointment_phone = FirstMatch(phone_of, turns)
       /\ slots # None =>
            \A f \in SlotFields : slots[1][f] # <<>> => now_[f] = slots[1][f]

\* the turns 'Rohit', 'checkup', 'Jordan' in this order: the name extracted
\* after the third is that of the first
C16_Witness ==
    /\ \E i, j, k \in 1..Len(turns) :
          /\ i < j /\ j < k
          /\ turns[i] = <<Word("Rohit")>>
          /\ turns[j] = <<Word("checkup")>>
          /\ turns[k] = <<Word("Jordan")>>
    /\ slots = Some(scan_history(NoSlots, turns))
    /\ slots[1].patient_name = <<Word("Rohit")>>
    /\ slots[1].appointment_reason = Some("Checkup")

\* the summary block of a text: from its last block marker to its end
BlockOf(text) ==
    LET P == {i \in 1..Len(text) : text[i] = Word("**Appointment Summary:**")}
    IN SubSeq(text, CHOOSE i \in P : \A j \in P : j <= i, Len(text))

\* the labels that delimit the parts of a summary block
BlockLabels ==
    {Word("**Appointment Summary:**"), Word("**Patient Name:**"), Word("**Date & Time:**"),
     Word("**Reason:**"), Word("**Contact:**"), Word("click the 'Confirm Appointment' button")}

\* the tokens of a block between a label and the label that follows it
Section(block, label) ==
    LET P == {i \in 1..Len(block) : block[i] = label}
    IN IF P = {} THEN <<>>
       ELSE LET from == Min(P)
                Q == {i \in (from + 1)..Len(block) : block[i] \in BlockLabels}
            IN SubSeq(block, from + 1, IF Q = {} THEN Len(block) ELSE Min(Q) - 1)

\* the time and the date of a block's Date & Time part
BlockTime(block) ==
    LET dt == Section(block, Word("**Date & Time:**")) IN SubSeq(dt, Len(dt), Len(dt))

BlockDate(block) ==
    LET dt == Section(block, Word("**Date & Time:**")) IN SubSeq(dt, 1, Len(dt) - 1)

ConfirmationLanguage(text) ==
    \/ Contains(text, {"confirmed", "scheduled", "booked"})
    \/ /\ Contains(text, {"appointment"})
       /\ \E i \in 1..Len(text) : text[i].k = "time"
       /\ Contains(text, {"checkup", "cleaning", "pain", "emergency"})

\* trigger condition (c): a cancel, reschedule or modify request
CancelRequest(text) == Contains(text, {"cancel", "reschedule", "modify"})

\* trigger condition (d): a bare confirmation token
BareConfirmation(msg) ==
    Len(msg) = 1 /\ msg[1] \in {Word("confirm"), Word("yes"), Word("ok")}

\* C18: a pass appends a summary only to a text with confirmation language
\* and without a block, when neither the text nor the user's message is a
\* cancel/reschedule/modify request and the message is not a bare
\* confirmation.
C18_SummaryTrigger ==
    \A i \in 1..Len(rewritten) :
        Appended(i) =>
            /\ ConfirmationLanguage(PassInput(i))
            /\ ~has_existing_summary(PassInput(i))
            /\ ~CancelRequest(PassInput(i))
            /\ ~CancelRequest(message)
            /\ ~BareConfirmation(message)

\* positions of 'Monday-Friday' and 'Monday through Friday' in a text
RangeAt(text) ==
    {i \in 1..(Len(text) - 2) :
        /\ text[i] = Day(0)
        /\ text[i + 1] \in {Word("-"), Word("through")}
        /\ text[i + 2] = Day(4)}

\* C19: the endpoints of a weekday range of the response are left bare: the
\* result holds the same range, with no date after its second endpoint.
C19_RangeKeptBare ==
    (rewritten # <<>> /\ RangeAt(response) # {}) =>
        \E j \in RangeAt(rewritten[1]) :
            /\ rewritten[1][j + 1] \in {response[i + 1] : i \in RangeAt(response)}
            /\ ~Stamped(SubSeq(rewritten[1], j + 2, Len(rewritten[1])))

\* no stage applies: no placeholder, weekday, 'tomorrow', date or
\* confirmation language in the response, no date in the user's message
NoStageApplies ==
    /\ \A i \in 1..Len(response) :
          /\ response[i].k \notin {"day", "tomorrow", "date"}
          /\ response[i] # Word("[insert date]")
          /\ response[i] # Word("next")
    /\ \A i \in 1..Len(message) : message[i].k # "date"
    /\ ~is_confirmed_booking(response, input_text(anchor, message))

\* the user's message gives a date that is no date of the calendar
UnparseableUserDate ==
    /\ user_date_match(message) # None
    /\ strptime(user_date_match(message)[1]) = None

C23_SessionNotFound ==
    [][\A sid \in SessionIds, m \in Messages :
          ChatBeginExisting(sid, m) =>
              IF sid \notin sessions \/ Expired(sid)
              THEN /\ reqs' = reqs
                   /\ chatsIssued' = chatsIssued
                   /\ nextId' = nextId
                   /\ objs' = objs
                   /\ sessions' = sessions \ {sid}
                   /\ pendingSweeps' = pendingSweeps
              ELSE /\ sessions' = sessions
                   /\ reqs' = reqs (+) SetToBag({ChatRequest(Some(sid), sid, m, now)})]_vars

\* a chat request named an expired session and was answered with 404
C23_Witness ==
    /\ lastCall.op = "chat"
    /\ lastCall.status = "404"
    /\ lastCall.ret = None
    /\ Expired(lastCall.sid)
    /\ lastCall.sid \notin sessions

\* C29: last_activity and message_count of a session change only in the
\* step that records a turn with add_message.  get_session (in
\* get_session_info and in chat) changes no session object, and clear
\* empties the history and leaves the counter and the stamp as they were.
C29_OnlyAddMessageTouches ==
    [][\A sid \in DOMAIN objs :
          /\ (\/ objs'[sid].last_activity # objs[sid].last_activity
              \/ objs'[sid].message_count # objs[sid].message_count)
                => /\ Completes(sid)
                   /\ objs'[sid] = add_message([objs'[sid] EXCEPT
                                                   !.history = SubSeq(@, 1, Len(@) - 1),
                                                   !.last_activity = objs[sid].last_activity,
                                                   !.message_count = objs[sid].message_count],
                                               objs'[sid].history[Len(objs'[sid].history)][1],
                                               objs'[sid].history[Len(objs'[sid].history)][2],
                                               now)
          /\ (GetSessionInfo(sid) \/ \E m \in Messages : ChatBeginExisting(sid, m))
                => objs' = objs
          /\ ClearHistory(sid) =>
                /\ objs'[sid].last_activity = objs[sid].last_activity
                /\ objs'[sid].message_count = objs[sid].message_count
                /\ sid \in sessions' => objs'[sid].history = <<>>]_vars

\* the history of a session with recorded turns was cleared some time after
\* its last turn: the counter still counts the turns
C29_Witness ==
    /\ lastCall.op = "clear_session_history"
    /\ objs[lastCall.sid].history = <<>>
    /\ objs[lastCall.sid].message_count >= 1
    /\ now > objs[lastCall.sid].last_activity

\* C26: the count get_active_sessions_count reports is the number of
\* sessions of the store that have not expired.
C26_ActiveCount ==
    get_active_sessions_count(sessions) = Cardinality({sid \in sessions : ~Expired(sid)})

\* C27: a chat call that succeeds adds exactly one pair to the history of
\* its session: the user's message as sent, with the final response.
C27_OnePairPerChat ==
    [][\A q \in BagToSet(reqs), r \in Responses :
          ProviderReturn(q, r) =>
              objs'[q.sid].history =
                  Append(objs[q.sid].history, <<UserText(q.message), FinalResponse(r)>>)]_vars

\* C28: the session of a chat request that awaits the provider stays in the
\* store, and when the request completes the session it answers with is in
\* the store and holds the recorded turn.
C28_LiveWhileInFlight ==
    [][/\ \A q \in BagToSet(reqs') : q.sid \in sessions'
       /\ \A q \in BagToSet(reqs), r \in Responses :
             ProviderReturn(q, r) =>
                 /\ q.sid \in sessions'
                 /\ objs'[q.sid].history # <<>>]_vars

\* ------------------------------------------------ claims on the anchor

\* C21: the date the post-processing of a chat request works with is the
\* date its prompt and its date instruction were built with.
C21_AnchorReadOnce ==
    [][\A q \in BagToSet(reqs), r \in Responses :
          ProviderReturn(q, r) => post_processing_today(now) = instruction_today(q)]_vars

\* C22: every place that maps a weekday W to a date maps it to the nearest
\* day after the anchor that falls on W, so that the places agree.
C22_WeekdayDatesAgree ==
    computed # None =>
        LET c == computed[1]
        IN \A W \in Weekdays :
              /\ c.dates[W] - c.today \in 1..7
              /\ c.dates[W] = prompt_dates(c.today)[W]
              /\ c.dates[W] = next_week_dates(c.today)[W]
              /\ c.dates[W] = next_dates(c.today)[W]

\* ------------------------------------------- claims on the summary fields

\* a token that is one of the keywords as a word of its own
KeywordWord(tok) ==
    \/ tok.k \in {"day", "tomorrow"}
    \/ tok.k = "word" /\ Lower(tok.s) \in name_keywords

\* the name rule as stated: at most 4 words, no digit, no word a keyword
NamedBy(msg) ==
    /\ msg # <<>>
    /\ WordCount(msg) <= 4
    /\ \A i \in 1..Len(msg) : ~HasDigit(msg[i]) /\ ~KeywordWord(msg[i])

\* C24: the extracted name is the first human turn of at most 4 words that
\* has no digit and no keyword among its words; a keyword inside a word
\* does not count.
C24_NameRule ==
    LET P == {i \in 1..Len(turns) : NamedBy(turns[i])}
    IN scan_history(NoSlots, turns).patient_name =
          IF P = {} THEN <<>> ELSE title(turns[Min(P)])

\* the text the summary stage of the i-th pass received
Staged(i) ==
    date_stages(placeholders(PassInput(i), anchor), anchor, input_text(anchor, message))

\* one of the fields of the summary is known in the i-th pass
SomeFieldKnown(i) ==
    LET f == summary_fields(Staged(i), anchor, turns)
    IN \/ f.patient_name # <<>>
       \/ f.appointment_reason # None
       \/ f.appointment_phone # None
       \/ f.time_str # None /\ f.day_date # None

\* C25: a pass whose summary stage is triggered while some field is known
\* appends exactly one summary block, whether or not the date and the time
\* are known.
C25_SummaryNotSuppressed ==
    \A i \in 1..Len(rewritten) :
        (summary_triggered(Staged(i), input_text(anchor, message)) /\ SomeFieldKnown(i))
            => Blocks(rewritten[i]) = Blocks(PassInput(i)) + 1

\* the dates with a year that a text holds
DatesOf(text) ==
    {<<text[i].y, text[i].m, text[i].d>> : i \in {j \in 1..Len(text) : text[j].k = "date"
                                                                       /\ text[j].y # 0}}

\* C30: a date given without a year is read in the year of the anchor: every
\* date the rewrite writes out lies in the anchor's year, and the closed-day
\* message answers a user's date only if that date is a Sunday in the
\* anchor's year.
C30_YearOfAnchor ==
    rewritten # <<>> =>
        LET year == fromordinal(anchor).y
            dm == user_date_match(message)
        IN /\ \A t \in DatesOf(rewritten[1]) \ DatesOf(response) : t[1] = year
           /\ (/\ IsClosedDayMessage(rewritten[1])
               /\ ~MentionsSunday(response)
               /\ dm # None)
                 => /\ valid_date(year, dm[1].m, dm[1].d)
                    /\ weekday(toordinal(year, dm[1].m, dm[1].d)) = 6
====
